---------------------------- MODULE Spec2Model ----------------------------
(***************************************************************************)
(* A model of the citation generator (app.py): the source classifier, the  *)
(* three citation extractors, the markup renderer and the batch loop that  *)
(* ties them together.                                                     *)
(*                                                                         *)
(* Text is modelled as a sequence of one-character strings, so that the    *)
(* substring tests, the splits and the regular expressions of the program  *)
(* are computed character by character as the program computes them.  A    *)
(* Python value that may be None is a sequence of length 0 (None) or 1.    *)
(***************************************************************************)
EXTENDS Integers, Sequences, FiniteSets, TLC

VARIABLES
    op,         \* which function a single call applies ("off" in the batch)
    arg,        \* the arguments of that call
    ret,        \* its result, once it has returned
    urls,       \* the batch: the URLs read from the text area
    i,          \* number of URLs of the batch the loop has processed
    citations,  \* the (url, citation, type) triples collected so far
    results,    \* per processed URL: what the classifier and extractor gave
    pc,         \* position of the batch: "loop", "render", "done", "crashed"
    docx        \* the argument and result of generate_docx, once called

vars == <<op, arg, ret, urls, i, citations, results, pc, docx>>

---------------------------------------------------------------------------
(* Bounds of the model *)

\* most fragments a classifier input is assembled from
MaxParts == 3

\* most fragments a URL given to the year extraction is assembled from
MaxYearParts == 4

\* most fragments a file name given to the chapter parsing is assembled from
MaxNameParts == 4

\* most partner ministries of a news release
MaxPartners == 3

\* most fragments a citation given to the renderer is assembled from
MaxMarkupParts == 3

\* most citations in a list given to the renderer
MaxCitations == 3

\* most URLs in a batch
MaxUrls == 3

---------------------------------------------------------------------------
(* Python values and string primitives *)

None == <<>>
Some(x) == <<x>>

\* Python truthiness of an optional string: None and '' are falsy
Truthy(o) == o # None /\ o[1] # <<>>

Digits == {"0", "1", "2", "3", "4", "5", "6", "7", "8", "9"}

IsDigit(c) == c \in Digits

DigitVal(c) ==
    CASE c = "0" -> 0 [] c = "1" -> 1 [] c = "2" -> 2 [] c = "3" -> 3
      [] c = "4" -> 4 [] c = "5" -> 5 [] c = "6" -> 6 [] c = "7" -> 7
      [] c = "8" -> 8 [] c = "9" -> 9

\* the least member of a set of positions, 0 when the set is empty: where
\* a scan from left to right finds its first hit
Least(S) == IF S = {} THEN 0 ELSE CHOOSE k \in S : \A j \in S : k <= j

\* the greatest member of a set of positions, 0 when the set is empty
Greatest(S) == IF S = {} THEN 0 ELSE CHOOSE k \in S : \A j \in S : j <= k

\* x when it is not 0, d otherwise
OrElse(x, d) == IF x # 0 THEN x ELSE d

\* s[a..b], empty when the range is empty (a Python slice)
Slice(s, a, b) == IF a > b THEN <<>> ELSE SubSeq(s, a, b)

\* pat occurs in s at position p
MatchAt(s, p, pat) ==
    /\ p >= 1
    /\ p + Len(pat) - 1 <= Len(s)
    /\ Slice(s, p, p + Len(pat) - 1) = pat

\* Python's  pat in s
Contains(s, pat) == \E p \in 1..(Len(s) + 1) : MatchAt(s, p, pat)

StartsWith(s, pat) == MatchAt(s, 1, pat)

EndsWith(s, pat) == MatchAt(s, Len(s) - Len(pat) + 1, pat)

\* concatenation of a sequence of strings
RECURSIVE Concat(_)
Concat(ss) == IF ss = <<>> THEN <<>> ELSE Head(ss) \o Concat(Tail(ss))

\* all sequences over S of length 1..n
RECURSIVE SeqsUpTo(_, _)
SeqsUpTo(S, n) ==
    IF n = 0 THEN {}
    ELSE LET shorter == SeqsUpTo(S, n - 1)
         IN  {<<x>> : x \in S} \cup shorter
               \cup {Append(q, x) : q \in shorter, x \in S}

\* sep.join(items)
RECURSIVE Join(_, _)
Join(sep, items) ==
    IF items = <<>> THEN <<>>
    ELSE IF Len(items) = 1 THEN items[1]
    ELSE items[1] \o sep \o Join(sep, Tail(items))

Whitespace == {" ", "\t", "\n"}

Upper == <<"A","B","C","D","E","F","G","H","I","J","K","L","M","N","O","P","Q","R","S","T","U","V","W","X","Y","Z">>
Lowercase == <<"a","b","c","d","e","f","g","h","i","j","k","l","m","n","o","p","q","r","s","t","u","v","w","x","y","z">>

\* str.lower() of one character
LowerChar(c) ==
    IF \E k \in 1..Len(Upper) : Upper[k] = c
    THEN Lowercase[CHOOSE k \in 1..Len(Upper) : Upper[k] = c]
    ELSE c

\* str.lower()
Lower(s) == [k \in 1..Len(s) |-> LowerChar(s[k])]

\* first index at or after p that holds no whitespace (Len(s) + 1: none)
SkipSpaces(s, p) ==
    OrElse(Least({k \in p..Len(s) : s[k] \notin Whitespace}), Len(s) + 1)

\* last index at or before p that holds no whitespace (0: none)
SkipSpacesBack(s, p) == Greatest({k \in 1..p : s[k] \notin Whitespace})

\* str.strip()
Strip(s) == Slice(s, SkipSpaces(s, 1), SkipSpacesBack(s, Len(s)))

\* first index at or after p that holds whitespace (Len(s) + 1: none)
SkipWord(s, p) ==
    OrElse(Least({k \in p..Len(s) : s[k] \in Whitespace}), Len(s) + 1)

\* str.split(): the words between runs of whitespace, from p on
RECURSIVE Words(_, _)
Words(s, p) ==
    LET b == SkipSpaces(s, p)
        e == SkipWord(s, b)
    IN  IF b > Len(s) THEN <<>>
        ELSE <<SubSeq(s, b, e - 1)>> \o Words(s, e)

\* str.split(ch): the pieces between the occurrences of the character ch
RECURSIVE SplitOn(_, _)
SplitOn(s, ch) ==
    IF Least({k \in 1..Len(s) : s[k] = ch}) # 0
    THEN <<Slice(s, 1, Least({k \in 1..Len(s) : s[k] = ch}) - 1)>>
           \o SplitOn(Slice(s, Least({k \in 1..Len(s) : s[k] = ch}) + 1,
                            Len(s)), ch)
    ELSE <<s>>

---------------------------------------------------------------------------
(* Source classifier *)

AuditorHost == <<"a","u","d","i","t","o","r",".","o","n",".","c","a">>
NewsHost == <<"n","e","w","s",".","o","n","t","a","r","i","o",".","c","a">>
StatutePath == <<"o","n","t","a","r","i","o",".","c","a","/","l","a","w","s","/","s","t","a","t","u","t","e">>
RegulationPath == <<"o","n","t","a","r","i","o",".","c","a","/","l","a","w","s","/","r","e","g","u","l","a","t","i","o","n">>

\* a classifier that tests the news host before the auditor host
DetectNewsFirst(url) ==
    IF Contains(url, NewsHost) THEN "news"
    ELSE IF Contains(url, AuditorHost) THEN "ag"
    ELSE IF Contains(url, StatutePath) \/ Contains(url, RegulationPath)
         THEN "elaws"
    ELSE "none"

\* detect_citation_type: 'ag', 'news', 'elaws' or None ("none")
DetectCitationType(url) ==
    IF Contains(url, AuditorHost) THEN "ag"
    ELSE IF Contains(url, NewsHost) THEN "news"
    ELSE IF Contains(url, StatutePath) \/ Contains(url, RegulationPath)
         THEN "elaws"
    ELSE "none"

---------------------------------------------------------------------------
(* Audit reports: year, chapter and section *)

\* last index of the run of at most n digits that starts at p (p - 1: none)
DigitRunEnd(s, p, n) ==
    LET hi == IF p + n - 1 < Len(s) THEN p + n - 1 ELSE Len(s)
    IN  OrElse(Least({k \in p..hi : ~IsDigit(s[k])}), hi + 1) - 1

YearPrefixes == {<<"e","n">>, <<"a","r">>, <<"f","r">>}
CenturyPrefixes == {<<"1","9">>, <<"2","0">>}

\* r'(?:en|ar|fr)(\d{2,4})' matches at p
PrefixedYearMatch(url, p) ==
    /\ p + 3 <= Len(url)
    /\ Slice(url, p, p + 1) \in YearPrefixes
    /\ DigitRunEnd(url, p + 2, 4) >= p + 3

\* re.search(r'(?:en|ar|fr)(\d{2,4})', url): group 1 of the leftmost match
\* at or after p (the digits are matched greedily, four at most)
SearchPrefixedYear(url, p) ==
    LET m == Least({k \in p..Len(url) : PrefixedYearMatch(url, k)})
    IN  IF m = 0 THEN None
        ELSE Some(SubSeq(url, m + 2, DigitRunEnd(url, m + 2, 4)))

\* r'19\d{2}|20\d{2}' matches at p
BareYearMatch(url, p) ==
    /\ p + 3 <= Len(url)
    /\ Slice(url, p, p + 1) \in CenturyPrefixes
    /\ IsDigit(url[p + 2])
    /\ IsDigit(url[p + 3])

\* re.search(r'19\d{2}|20\d{2}', url): the leftmost match at or after p
SearchBareYear(url, p) ==
    LET m == Least({k \in p..Len(url) : BareYearMatch(url, k)})
    IN  IF m = 0 THEN None ELSE Some(SubSeq(url, m, m + 3))

\* the year extraction with the two-digit expansion left out
ExtractYearNoExpansion(url) ==
    LET match == SearchPrefixedYear(url, 1)
    IN  IF match # None THEN match ELSE SearchBareYear(url, 1)

\* extract_year_from_url
ExtractYearFromUrl(url) ==
    LET match == SearchPrefixedYear(url, 1)
    IN  IF match # None
        THEN LET year == match[1]
             IN  IF Len(year) = 2
                 THEN IF 10 * DigitVal(year[1]) + DigitVal(year[2]) >= 50
                      THEN Some(<<"1","9">> \o year)
                      ELSE Some(<<"2","0">> \o year)
                 ELSE Some(year)
        ELSE SearchBareYear(url, 1)

\* the (chapter, section) pair built from the digits C and SS of a match
ChapterSection(chapter, section_digits) ==
    IF section_digits # <<"0","0">>
    THEN [chapter |-> Some(chapter),
          section |-> Some(chapter \o <<".">> \o section_digits)]
    ELSE [chapter |-> Some(chapter), section |-> None]

\* r'v\d+_(\d)(\d{2})' matches at p: 'v', a maximal run of one or more
\* digits, '_' and three digits
VolumeMatchAt(s, p) ==
    /\ p <= Len(s)
    /\ s[p] = "v"
    /\ LET e == DigitRunEnd(s, p + 1, Len(s))
       IN  /\ e >= p + 1
           /\ e + 4 <= Len(s)
           /\ s[e + 1] = "_"
           /\ IsDigit(s[e + 2])
           /\ IsDigit(s[e + 3])
           /\ IsDigit(s[e + 4])

\* re.search(r'v\d+_(\d)(\d{2})', filename): the start of the leftmost match
\* at or after p, 0 when there is none
SearchVolume(s, p) == Least({k \in p..Len(s) : VolumeMatchAt(s, k)})

\* re.search(r'^(\d)(\d{2})en\d{2}', filename) matches
LeadingMatch(s) ==
    /\ Len(s) >= 7
    /\ \A k \in {1, 2, 3, 6, 7} : IsDigit(s[k])
    /\ SubSeq(s, 4, 5) = <<"e","n">>

\* the chapter parsing with the '00' test left out
ExtractChapterSectionNoZeroTest(filename) ==
    LET p == SearchVolume(filename, 1)
        e == DigitRunEnd(filename, p + 1, Len(filename))
    IN  IF p # 0
        THEN [chapter |-> Some(<<filename[e + 2]>>),
              section |-> Some(<<filename[e + 2]>> \o <<".">>
                                 \o SubSeq(filename, e + 3, e + 4))]
        ELSE IF LeadingMatch(filename)
        THEN [chapter |-> Some(<<filename[1]>>),
              section |-> Some(<<filename[1]>> \o <<".">>
                                 \o SubSeq(filename, 2, 3))]
        ELSE [chapter |-> None, section |-> None]

\* extract_chapter_section_from_filename
ExtractChapterSectionFromFilename(filename) ==
    LET p == SearchVolume(filename, 1)
        e == DigitRunEnd(filename, p + 1, Len(filename))
    IN  IF p # 0
        THEN ChapterSection(<<filename[e + 2]>>,
                            SubSeq(filename, e + 3, e + 4))
        ELSE IF LeadingMatch(filename)
        THEN ChapterSection(<<filename[1]>>, SubSeq(filename, 2, 3))
        ELSE [chapter |-> None, section |-> None]

\* is_pdf_url
IsPdfUrl(url) == EndsWith(Lower(url), <<".","p","d","f">>)

\* position after a case-insensitive literal at p, 0 when it is not there
LitCI(s, p, lit) ==
    IF p >= 1 /\ MatchAt(Lower(s), p, lit) THEN p + Len(lit) ELSE 0

\* position after r'\d+\.\d{2}' at p, 0 when it does not match
NumberDotTwo(s, p) ==
    LET e == DigitRunEnd(s, p, Len(s))
    IN  IF /\ p >= 1
           /\ e >= p
           /\ e + 3 <= Len(s)
           /\ s[e + 1] = "."
           /\ IsDigit(s[e + 2])
           /\ IsDigit(s[e + 3])
        THEN e + 4
        ELSE 0

\* position after one or more whitespace characters at p, 0 when none
SpacesPlus(s, p) ==
    IF p >= 1 /\ p <= Len(s) /\ s[p] \in Whitespace THEN SkipSpaces(s, p)
    ELSE 0

\* position after r'\s*:\s*' at p, 0 when it does not match
ColonPart(s, p) ==
    IF p >= 1 /\ SkipSpaces(s, p) <= Len(s) /\ s[SkipSpaces(s, p)] = ":"
    THEN SkipSpaces(s, SkipSpaces(s, p) + 1)
    ELSE 0

\* s without its first p - 1 characters when p # 0 (a match), s otherwise:
\* re.sub of a pattern anchored at the start
DropPrefix(s, p) == IF p = 0 THEN s ELSE Slice(s, p, Len(s))

\* position after r"\'?s?" at p (each of the two optional), 0 when p is 0
QuoteS(s, p) ==
    IF p = 0 THEN 0
    ELSE IF p <= Len(s) /\ s[p] = "'"
    THEN IF p + 1 <= Len(s) /\ LowerChar(s[p + 1]) = "s" THEN p + 2 ELSE p + 1
    ELSE IF p <= Len(s) /\ LowerChar(s[p]) = "s" THEN p + 1 ELSE p

\* position after r'(?:Provincial\s+)?' at p: the group is optional
OptProvincial(s, p) ==
    IF SpacesPlus(s, LitCI(s, p, <<"p","r","o","v","i","n","c","i","a","l">>)) # 0
    THEN SpacesPlus(s, LitCI(s, p, <<"p","r","o","v","i","n","c","i","a","l">>))
    ELSE p

\* position after r'Report:\s*' at p, 0 when it does not match
ReportColon(s, p) ==
    IF LitCI(s, p, <<"r","e","p","o","r","t",":">>) = 0 THEN 0
    ELSE SkipSpaces(s, LitCI(s, p, <<"r","e","p","o","r","t",":">>))

\* position after
\* r'^\d{4}\s+(?:Provincial\s+)?Auditor\'?s?\s+Report:\s*' (re.I), or 0
ReportPrefixEnd(s) ==
    IF DigitRunEnd(s, 1, 4) # 4 THEN 0
    ELSE ReportColon(s,
           SpacesPlus(s,
             QuoteS(s,
               LitCI(s, OptProvincial(s, SpacesPlus(s, 5)), <<"a","u","d","i","t","o","r">>))))

\* position after r'^VFM\s+\d+\.\d{2}\s*:\s*' (re.I), or 0
VfmPrefixEnd(s) ==
    ColonPart(s, NumberDotTwo(s, SpacesPlus(s, LitCI(s, 1, <<"v","f","m">>))))

\* the four re.sub calls that strip the boilerplate prefixes of a title
StripReportPrefix(t) == DropPrefix(t, ReportPrefixEnd(t))
StripVfmPrefix(t) == DropPrefix(t, VfmPrefixEnd(t))
StripNumberColon(t) == DropPrefix(t, ColonPart(t, NumberDotTwo(t, 1)))
StripNumberSpace(t) == DropPrefix(t, SpacesPlus(t, NumberDotTwo(t, 1)))

CleanPdfTitle(title) ==
    StripNumberSpace(StripNumberColon(StripVfmPrefix(StripReportPrefix(title))))

\* extract_title_from_pdf_metadata: the title (None on any failure) and the
\* number of HTTP requests made.  resp is the outcome of the one request:
\* fetch is "ok", "neterr" (requests.get raises) or "badstatus"
\* (raise_for_status raises); for a fetched body, pdf says whether
\* pdfplumber opens it and title is its metadata Title (None: no such key).
ExtractTitleFromPdfMetadata(url, resp) ==
    [ title |->
        IF resp.fetch # "ok" \/ ~resp.pdf THEN None
        ELSE IF ~Truthy(resp.title) THEN None
        ELSE LET title == CleanPdfTitle(Strip(resp.title[1]))
             IN  IF title # <<>> THEN Some(title) ELSE None,
      requests |-> 1 ]

AuditorGeneral == <<"A","u","d","i","t","o","r"," ","G","e","n","e","r","a","l">>
OfficeOfTheAuditorGeneral == <<"O","f","f","i","c","e"," ","o","f"," ","t","h","e"," ","A","u","d","i","t","o","r"," ","G","e","n","e","r","a","l">>

\* the loop over h1, h2, h3 of extract_title_from_html, from tag k on:
\* headings[k] is the text of the first such element (None: no element)
RECURSIVE FirstHeading(_, _)
FirstHeading(headings, k) ==
    IF k > Len(headings) THEN None
    ELSE LET heading == headings[k]
         IN  IF /\ heading # None
                /\ Strip(heading[1]) # <<>>
                /\ ~Contains(Strip(heading[1]), OfficeOfTheAuditorGeneral)
                /\ ~Contains(Strip(heading[1]), AuditorGeneral)
             THEN Some(Strip(heading[1]))
             ELSE FirstHeading(headings, k + 1)

\* extract_title_from_html: resp.headings are the first h1, h2 and h3 of the
\* page; resp.content is the first heading inside the first content area
\* (None: no such area, or no heading in it)
ExtractTitleFromHtml(url, resp) ==
    [ title |->
        IF resp.fetch # "ok" THEN None
        ELSE IF FirstHeading(resp.headings, 1) # None
        THEN FirstHeading(resp.headings, 1)
        ELSE IF /\ resp.content # None
                /\ Strip(resp.content[1]) # <<>>
                /\ ~Contains(Strip(resp.content[1]), OfficeOfTheAuditorGeneral)
        THEN Some(Strip(resp.content[1]))
        ELSE None,
      requests |-> 1 ]

OrgName == <<"O","f","f","i","c","e"," ","o","f"," ","t","h","e"," ","A","u","d","i","t","o","r"," ","G","e","n","e","r","a","l"," ","o","f"," ","O","n","t","a","r","i","o">>

\* the last piece of url.split('/')
LastSegment(url) == LET parts == SplitOn(url, "/") IN parts[Len(parts)]

\* what a call that returns (citation, error) gives its caller
Returned(citation, error, requests) ==
    [raised |-> FALSE, citation |-> citation, error |-> error,
     requests |-> requests]

\* a call left by an exception
Raised(requests) ==
    [raised |-> TRUE, citation |-> None, error |-> None,
     requests |-> requests]

\* an audit-report extractor that fetches the document before it looks for
\* the year
FetchAgCitationFetchFirst(url, resp) ==
    IF ~Truthy(ExtractYearFromUrl(url))
    THEN Returned(None, Some(<<"C","o","u","l","d"," ","n","o","t"," ","e","x","t","r","a","c","t"," ","y","e","a","r">>), 1)
    ELSE IF ~Truthy(ExtractTitleFromHtml(url, resp).title)
    THEN Returned(None, Some(<<"C","o","u","l","d"," ","n","o","t"," ","e","x","t","r","a","c","t"," ","t","i","t","l","e"," ","f","r","o","m"," ","p","a","g","e">>), 1)
    ELSE Returned(Some(OrgName \o <<","," ","\"","[">>
             \o Join(<<" ">>, Words(ExtractTitleFromHtml(url, resp).title[1], 1))
             \o <<"]","(">> \o url \o <<")","\"",","," ","*">> \o ExtractYearFromUrl(url)[1]
             \o <<" ","A","n","n","u","a","l"," ","R","e","p","o","r","t","*",".">>), None, 1)

\* fetch_ag_citation
FetchAgCitation(url, resp) ==
    LET year == ExtractYearFromUrl(url)
    IN  IF ~Truthy(year)
        THEN Returned(None, Some(<<"C","o","u","l","d"," ","n","o","t"," ","e","x","t","r","a","c","t"," ","y","e","a","r">>), 0)
        ELSE
        LET year_report == year[1] \o <<" ","A","n","n","u","a","l"," ","R","e","p","o","r","t">>
        IN  IF IsPdfUrl(url)
            THEN LET got == ExtractTitleFromPdfMetadata(url, resp)
                 IN  IF ~Truthy(got.title)
                     THEN Returned(None,
                                   Some(<<"C","o","u","l","d"," ","n","o","t"," ","e","x","t","r","a","c","t"," ","t","i","t","l","e"," ","f","r","o","m"," ","P","D","F">>),
                                   got.requests)
                     ELSE
                     LET cs == ExtractChapterSectionFromFilename(
                                   LastSegment(url))
                         title == Join(<<" ">>, Words(got.title[1], 1))
                         head == OrgName \o <<","," ","\"","[">> \o title \o <<"]","(">> \o url
                                   \o <<")","\"",","," ">>
                         tail == <<"*">> \o year_report \o <<"*",".">>
                     IN  IF Truthy(cs.chapter) /\ Truthy(cs.section)
                         THEN Returned(Some(head \o <<"C","h","a","p","t","e","r"," ">> \o cs.chapter[1]
                                  \o <<","," ","S","e","c","t","i","o","n"," ">> \o cs.section[1] \o <<","," ">>
                                  \o tail), None, got.requests)
                         ELSE IF Truthy(cs.chapter)
                         THEN Returned(Some(head \o <<"C","h","a","p","t","e","r"," ">> \o cs.chapter[1]
                                  \o <<","," ">> \o tail), None, got.requests)
                         ELSE Returned(Some(head \o tail), None, got.requests)
            ELSE LET got == ExtractTitleFromHtml(url, resp)
                 IN  IF ~Truthy(got.title)
                     THEN Returned(None,
                                   Some(<<"C","o","u","l","d"," ","n","o","t"," ","e","x","t","r","a","c","t"," ","t","i","t","l","e"," ","f","r","o","m"," ","p","a","g","e">>),
                                   got.requests)
                     ELSE Returned(Some(OrgName \o <<","," ","\"","[">>
                              \o Join(<<" ">>, Words(got.title[1], 1)) \o <<"]","(">>
                              \o url \o <<")","\"",","," ","*">> \o year_report \o <<"*",".">>),
                              None, got.requests)

---------------------------------------------------------------------------
(* News releases: ministries *)

\* list(dict.fromkeys(names)): the first occurrence of each name, in order
RECURSIVE Dedup(_)
Dedup(names) ==
    IF names = <<>> THEN <<>>
    ELSE LET front == Dedup(SubSeq(names, 1, Len(names) - 1))
             last == names[Len(names)]
         IN  IF \E k \in 1..Len(front) : front[k] = last
             THEN front
             ELSE Append(front, last)

\* the names of the partner ministries kept by the list comprehension: a
\* partner is a dict with or without a 'name' key (name: None or one name)
RECURSIVE PartnerNames(_, _)
PartnerNames(main_ministry, partner_ministries) ==
    IF partner_ministries = <<>> THEN <<>>
    ELSE LET m == Head(partner_ministries)
             rest == PartnerNames(main_ministry, Tail(partner_ministries))
         IN  IF m.name # None /\ m.name[1] # main_ministry
             THEN <<m.name[1]>> \o rest
             ELSE rest

\* the ministries joined without the removal of repeated partners
FormatMinistriesNoDedup(main_ministry, partner_ministries) ==
    LET ministries ==
            <<main_ministry>> \o PartnerNames(main_ministry, partner_ministries)
    IN  IF Len(ministries) = 1 THEN ministries[1]
        ELSE IF Len(ministries) = 2
        THEN ministries[1] \o <<" ","a","n","d"," ">> \o ministries[2]
        ELSE Join(<<","," ">>, SubSeq(ministries, 1, Len(ministries) - 1))
               \o <<","," ","a","n","d"," ">> \o ministries[Len(ministries)]

\* format_ministries
FormatMinistries(main_ministry, partner_ministries) ==
    LET ministries ==
            Dedup(<<main_ministry>>
                    \o PartnerNames(main_ministry, partner_ministries))
    IN  IF Len(ministries) = 1 THEN ministries[1]
        ELSE IF Len(ministries) = 2
        THEN ministries[1] \o <<" ","a","n","d"," ">> \o ministries[2]
        ELSE Join(<<","," ">>, SubSeq(ministries, 1, Len(ministries) - 1))
               \o <<","," ","a","n","d"," ">> \o ministries[Len(ministries)]

\* str.isdigit(): not empty, digits only
IsDigitString(part) ==
    part # <<>> /\ \A k \in 1..Len(part) : IsDigit(part[k])

\* the first all-digit piece among parts, None when there is none
RECURSIVE FirstDigitPart(_)
FirstDigitPart(parts) ==
    IF parts = <<>> THEN None
    ELSE IF IsDigitString(Head(parts)) THEN Some(Head(parts))
    ELSE FirstDigitPart(Tail(parts))

\* extract_release_id
ExtractReleaseId(url) == FirstDigitPart(SplitOn(url, "/"))

\* data.get(key, default) for a key that is absent (None) or holds a string
GetOr(field, default) == IF field = None THEN default ELSE field[1]

\* the citation built from the 'data' object of the API's answer
NewsCitation(url, data) ==
    FormatMinistries(GetOr(data.ministry_name, <<>>),
                     GetOr(data.partner_ministries, <<>>))
      \o <<","," ","\"","[">> \o GetOr(data.content_title, <<"N","o"," ","t","i","t","l","e">>) \o <<"]","(">> \o url
      \o <<")","\"",","," ","*">> \o Lower(GetOr(data.release_type_name, <<"N","e","w","s"," ","R","e","l","e","a","s","e">>))
      \o <<"*",","," ">> \o GetOr(data.release_date_time_formatted, <<>>) \o <<".">>

\* a news extractor whose parsing is not guarded by a try block
ParseNewsUnguarded(url, body, requests) ==
    IF \/ body.json # "object"
       \/ body.partners_null
       \/ body.release_type_null
    THEN Raised(requests)
    ELSE Returned(Some(NewsCitation(url, body.data)), None, requests)

\* the second try block of fetch_news_release_citation.  json is "invalid"
\* (response.json() raises), "nodata" (no 'data' key), "notobject" ('data'
\* is no JSON object: .get raises) or "object"; in the object a null
\* 'partner_ministries' cannot be iterated and a null 'release_type_name'
\* has no .lower(): both raise inside the try.
ParseNews(url, body, requests) ==
    IF \/ body.json # "object"
       \/ body.partners_null
       \/ body.release_type_null
    THEN Returned(None, Some(<<"E","r","r","o","r"," ","p","a","r","s","i","n","g"," ","d","a","t","a",":"," ">>), requests)
    ELSE Returned(Some(NewsCitation(url, body.data)), None, requests)

\* fetch_news_release_citation: resp.fetch is the outcome of the one request
\* to the API, resp.body the JSON it returned
FetchNewsReleaseCitation(url, resp) ==
    IF ~Truthy(ExtractReleaseId(url))
    THEN Returned(None, Some(<<"C","o","u","l","d"," ","n","o","t"," ","e","x","t","r","a","c","t"," ","r","e","l","e","a","s","e"," ","I","D"," ","f","r","o","m"," ","U","R","L">>), 0)
    ELSE IF resp.fetch # "ok"
    THEN Returned(None, Some(<<"E","r","r","o","r"," ","f","e","t","c","h","i","n","g"," ","d","a","t","a",":"," ">>), 1)
    ELSE ParseNews(url, resp.body, 1)

---------------------------------------------------------------------------
(* e-Laws: statutes and regulations *)

\* first index at or after p that holds ch (Len(s) + 1: none)
IndexOf(s, p, ch) ==
    OrElse(Least({k \in p..Len(s) : s[k] = ch}), Len(s) + 1)

\* re.search(r'^([^-]+)', page_title): the text before the first '-',
\* page_title itself when the pattern does not match
FullTitleOf(page_title) ==
    IF IndexOf(page_title, 1, "-") > 1
    THEN Strip(Slice(page_title, 1, IndexOf(page_title, 1, "-") - 1))
    ELSE page_title

\* position after r'\d+' at p, 0 when no digit stands there
DigitsPlus(s, p) ==
    IF p >= 1 /\ DigitRunEnd(s, p, Len(s)) >= p
    THEN DigitRunEnd(s, p, Len(s)) + 1
    ELSE 0

\* position after a literal at p, 0 when it is not there
Lit(s, p, lit) == IF p >= 1 /\ MatchAt(s, p, lit) THEN p + Len(lit) ELSE 0

\* SkipSpaces that hands a failed match (0) on
SpacesStar(s, p) == IF p = 0 THEN 0 ELSE SkipSpaces(s, p)

\* position after r'^(O\.\s*Reg\.\s*\d+/\d+)', 0 when it does not match
RegShortEnd(s) ==
    DigitsPlus(s,
      Lit(s,
        DigitsPlus(s,
          SpacesStar(s, Lit(s, SpacesStar(s, Lit(s, 1, <<"O",".">>)), <<"R","e","g",".">>))),
        <<"/">>))

\* position after r'^([^,]+, \d{4})', 0 when it does not match
ActShortEnd(s) ==
    IF /\ IndexOf(s, 1, ",") > 1
       /\ IndexOf(s, 1, ",") + 5 <= Len(s)
       /\ s[IndexOf(s, 1, ",") + 1] = " "
       /\ \A k \in 2..5 : IsDigit(s[IndexOf(s, 1, ",") + k])
    THEN IndexOf(s, 1, ",") + 6
    ELSE 0

\* the group of a match that ends before position e, s when e is 0
MatchOr(s, e) == IF e = 0 THEN s ELSE SubSeq(s, 1, e - 1)

\* the short title of a regulation and of a statute
RegShortTitle(full_title) == MatchOr(full_title, RegShortEnd(full_title))
ActShortTitle(full_title) == MatchOr(full_title, ActShortEnd(full_title))

\* the loop over anchor_element.parents: headings[k] is the text of the
\* first h2, h3 or strong inside the k-th ancestor (None: it has none)
RECURSIVE SectionFromParents(_)
SectionFromParents(headings) ==
    IF headings = <<>> THEN None
    ELSE IF /\ Head(headings) # None
            /\ DigitsPlus(Strip(Head(headings)[1]), 1) # 0
    THEN Some(SubSeq(Strip(Head(headings)[1]), 1,
                     DigitsPlus(Strip(Head(headings)[1]), 1) - 1))
    ELSE SectionFromParents(Tail(headings))

\* url.split('#')[1].split('?')[0]
AnchorOf(url) == SplitOn(SplitOn(url, "#")[2], "?")[1]

\* the section a URL's anchor points at: page.anchor_id is the id of the
\* one element of the page that has an anchor id (None: no such element),
\* page.parents the headings of its ancestors
SectionOf(url, page) ==
    IF /\ Contains(url, <<"#">>)
       /\ AnchorOf(url) # <<>>
       /\ StartsWith(AnchorOf(url), <<"B","K">>)
       /\ page.anchor_id = Some(AnchorOf(url))
    THEN SectionFromParents(page.parents)
    ELSE None

\* url.split('?')[0].split('#')[0]
CleanUrl(url) == SplitOn(SplitOn(url, "?")[1], "#")[1]

\* '[title](clean_url)' followed by ', s. N.' or by '.'
ElawsCitation(title, clean_url, section) ==
    <<"[">> \o title \o <<"]","(">> \o clean_url \o <<")">>
      \o (IF Truthy(section) THEN <<","," ","s","."," ">> \o section[1] \o <<".">> ELSE <<".">>)

\* the dict returned for a page that was fetched and parsed
ElawsRecord(full_title, short_title, section, clean_url, is_regulation) ==
    [full_title |-> full_title,
     short_title |-> Some(short_title),
     section |-> section,
     clean_url |-> clean_url,
     is_regulation |-> is_regulation,
     full_citation |->
        IF Truthy(full_title)
        THEN Some(ElawsCitation(full_title[1], clean_url, section))
        ELSE None,
     short_citation |-> Some(ElawsCitation(short_title, clean_url, section))]

\* the dict returned from the except clause
ElawsError(url) ==
    [error |-> <<"r","e","q","u","e","s","t"," ","f","a","i","l","e","d">>,
     full_title |-> None,
     short_title |-> None,
     section |-> None,
     is_regulation |-> Contains(url, <<"r","e","g","u","l","a","t","i","o","n">>)]

\* the titles of a fetched page: page.title is the text of the title
\* element (None: no title element, or one without a string)
ElawsParsed(url, page) ==
    IF Truthy(page.title)
    THEN IF Contains(url, <<"r","e","g","u","l","a","t","i","o","n">>)
         THEN ElawsRecord(None, RegShortTitle(FullTitleOf(page.title[1])),
                          SectionOf(url, page), CleanUrl(url), TRUE)
         ELSE ElawsRecord(Some(FullTitleOf(page.title[1])),
                          ActShortTitle(FullTitleOf(page.title[1])),
                          SectionOf(url, page), CleanUrl(url), FALSE)
    ELSE ElawsRecord(Some(<<"L","e","g","i","s","l","a","t","i","o","n">>), <<"L","e","g","i","s","l","a","t","i","o","n">>,
                     SectionOf(url, page), CleanUrl(url),
                     Contains(url, <<"r","e","g","u","l","a","t","i","o","n">>))

\* fetch_elaws_citation: the dict it returns and the requests it made
FetchElawsCitation(url, resp) ==
    [raised |-> FALSE,
     value |-> IF resp.fetch # "ok" THEN ElawsError(url)
               ELSE ElawsParsed(url, resp.page),
     requests |-> 1]

---------------------------------------------------------------------------
(* The markup renderer *)

\* first index at or after p that holds ch with no line break before it, 0
\* when there is none: where a lazy '.*?' followed by ch ends
CloseAfter(s, p, ch) ==
    LET e == Least({k \in p..Len(s) : s[k] = ch \/ s[k] = "\n"})
    IN  IF e # 0 /\ s[e] = ch THEN e ELSE 0

\* first index at or after p that holds '](' with no line break before it
BracketParen(s, p) ==
    LET e == Least({k \in p..(Len(s) - 1) :
                       (s[k] = "]" /\ s[k + 1] = "(") \/ s[k] = "\n"})
    IN  IF e # 0 /\ s[e] = "]" THEN e ELSE 0

\* last index of a match of r'\[.*?\]\(.*?\)' that starts at p, 0 when none
LinkEnd(s, p) ==
    IF s[p] # "[" \/ BracketParen(s, p + 1) = 0 THEN 0
    ELSE CloseAfter(s, BracketParen(s, p + 1) + 2, ")")

\* last index of a match of r'\*.*?\*' (ch = '*') or r'_.*?_' (ch = '_')
ItalicEnd(s, p, ch) == IF s[p] # ch THEN 0 ELSE CloseAfter(s, p + 1, ch)

\* last index of a match of the pattern at p: the alternatives in order
TokenEnd(s, p) ==
    IF LinkEnd(s, p) # 0 THEN LinkEnd(s, p)
    ELSE IF ItalicEnd(s, p, "*") # 0 THEN ItalicEnd(s, p, "*")
    ELSE ItalicEnd(s, p, "_")

\* pattern.split(citation_md): the text between the matches and the
\* matches, in turn, from position start on
RECURSIVE SplitParts(_, _, _)
SplitParts(s, p, start) ==
    LET m == Least({k \in p..Len(s) : TokenEnd(s, k) # 0})
    IN  IF m = 0 THEN <<Slice(s, start, Len(s))>>
        ELSE <<Slice(s, start, m - 1), SubSeq(s, m, TokenEnd(s, m))>>
               \o SplitParts(s, TokenEnd(s, m) + 1, TokenEnd(s, m) + 1)

\* re.findall(open (.*?) close, part)[0]: the group of the leftmost match
\* at or after p, None when findall gives an empty list
FirstGroup(part, p, open, close) ==
    LET m == Least({k \in p..Len(part) :
                       part[k] = open /\ CloseAfter(part, k + 1, close) # 0})
    IN  IF m = 0 THEN None
        ELSE Some(Slice(part, m + 1, CloseAfter(part, m + 1, close) - 1))

HyperlinkRun(text, url) == [kind |-> "hyperlink", text |-> text, url |-> url]
ItalicRun(text) == [kind |-> "italic", text |-> text, url |-> <<>>]
PlainRun(text) == [kind |-> "plain", text |-> text, url |-> <<>>]
\* the run of an index error raised by [0] on an empty findall list
NoRun == [kind |-> "raise", text |-> <<>>, url |-> <<>>]
\* p.add_run('\n')
BreakRun == [kind |-> "break", text |-> <<"\n">>, url |-> <<>>]

\* the body of the loop over parts for a part that is not empty
RunOf(part) ==
    IF StartsWith(part, <<"[">>) /\ Contains(part, <<"]","(">>) /\ EndsWith(part, <<")">>)
    THEN IF \/ FirstGroup(part, 1, "[", "]") = None
            \/ FirstGroup(part, 1, "(", ")") = None
         THEN NoRun
         ELSE HyperlinkRun(FirstGroup(part, 1, "[", "]")[1],
                           FirstGroup(part, 1, "(", ")")[1])
    ELSE IF \/ StartsWith(part, <<"*">>) /\ EndsWith(part, <<"*">>)
            \/ StartsWith(part, <<"_">>) /\ EndsWith(part, <<"_">>)
    THEN ItalicRun(Slice(part, 2, Len(part) - 1))
    ELSE PlainRun(part)

\* the runs of the parts, empty parts skipped
RECURSIVE RunsOf(_)
RunsOf(parts) ==
    IF parts = <<>> THEN <<>>
    ELSE IF Head(parts) = <<>> THEN RunsOf(Tail(parts))
    ELSE <<RunOf(Head(parts))>> \o RunsOf(Tail(parts))

\* the paragraph of one citation: its runs and the closing line break
Paragraph(citation_md) ==
    Append(RunsOf(SplitParts(citation_md, 1, 1)), BreakRun)

\* an exception left the loop over the parts of this paragraph
ParagraphRaises(paragraph) ==
    \E k \in 1..Len(paragraph) : paragraph[k].kind = "raise"

\* generate_docx: the paragraphs of the document, or the exception that
\* left it
GenerateDocx(citation_texts) ==
    LET paragraphs ==
            [k \in 1..Len(citation_texts) |-> Paragraph(citation_texts[k])]
    IN  IF \E k \in 1..Len(paragraphs) : ParagraphRaises(paragraphs[k])
        THEN [raised |-> TRUE, paragraphs |-> <<>>]
        ELSE [raised |-> FALSE, paragraphs |-> paragraphs]

---------------------------------------------------------------------------
(* Values the variables of one specification keep while another runs *)

BatchOff ==
    /\ urls = <<>>
    /\ i = 0
    /\ citations = <<>>
    /\ results = <<>>
    /\ pc = "off"
    /\ docx = None

batchVars == <<urls, i, citations, results, pc, docx>>

---------------------------------------------------------------------------
(* SpecClassify: detect_citation_type applied to URLs assembled from the   *)
(* pieces of the four patterns                                             *)

ClassifyFrags ==
    { <<"a","u","d","i","t","o","r",".","o","n",".","c","a","/">>, <<"A","u","d","i","t","o","r",".","o","n",".","c","a","/">>, <<"n","e","w","s",".">>, <<"o","n","t","a","r","i","o",".","c","a","/","l","a","w","s","/">>,
      <<"s","t","a","t","u","t","e">>, <<"r","e","g","u","l","a","t","i","o","n">>, <<"R","e","g","u","l","a","t","i","o","n">>, <<"/","x">> }

ClassifyUrls == {Concat(q) : q \in SeqsUpTo(ClassifyFrags, MaxParts)}

InitClassify ==
    /\ op = "idle"
    /\ arg \in ClassifyUrls
    /\ ret = None
    /\ BatchOff

CallDetect ==
    /\ op = "idle"
    /\ op' = "detect"
    /\ ret' = Some(DetectCitationType(arg))
    /\ UNCHANGED <<arg, batchVars>>

NextClassify == CallDetect

SpecClassify == InitClassify /\ [][NextClassify]_vars

\* C2: detect_citation_type gives every URL exactly one of the four kinds,
\* by the first rule that matches, matching substrings case-sensitively:
\* auditor.on.ca, then news.ontario.ca, then ontario.ca/laws/statute or
\* ontario.ca/laws/regulation, otherwise unrecognized.
ClassifyFirstMatchWins ==
    op = "detect" =>
        /\ ret \in {Some("ag"), Some("news"), Some("elaws"), Some("none")}
        /\ Contains(arg, AuditorHost) => ret = Some("ag")
        /\ (~Contains(arg, AuditorHost) /\ Contains(arg, NewsHost))
              => ret = Some("news")
        /\ ( /\ ~Contains(arg, AuditorHost)
             /\ ~Contains(arg, NewsHost)
             /\ \/ Contains(arg, StatutePath)
                \/ Contains(arg, RegulationPath) )
              => ret = Some("elaws")
        /\ ( /\ ~Contains(arg, AuditorHost)
             /\ ~Contains(arg, NewsHost)
             /\ ~Contains(arg, StatutePath)
             /\ ~Contains(arg, RegulationPath) )
              => ret = Some("none")

\* a URL holding both the auditor host and the news host is classified 'ag'
ClassifyPrecedenceReached ==
    /\ op = "detect"
    /\ Contains(arg, AuditorHost)
    /\ Contains(arg, NewsHost)
    /\ ret = Some("ag")

---------------------------------------------------------------------------
(* SpecYear: extract_year_from_url and fetch_ag_citation applied to URLs   *)
(* assembled from language prefixes and digit groups                       *)

YearFrags == { <<"e","n">>, <<"a","r">>, <<"f","r">>, <<"1","8">>, <<"5","0">>, <<"5">>, <<"1","9">>, <<"2","0">>, <<"/">> }

YearUrls == {Concat(q) : q \in SeqsUpTo(YearFrags, MaxYearParts)}

\* an audit-report page whose first h1 is a usable title
PlainReportPage ==
    [fetch |-> "ok", pdf |-> FALSE, title |-> None,
     headings |-> <<Some(<<"L","a","n","d"," ","T","r","i","b","u","n","a","l">>), None, None>>, content |-> None]

InitYear ==
    /\ op = "idle"
    /\ arg \in {[url |-> u, resp |-> PlainReportPage] : u \in YearUrls}
    /\ ret = None
    /\ BatchOff

CallExtractYear ==
    /\ op = "idle"
    /\ op' = "year"
    /\ ret' = Some(ExtractYearFromUrl(arg.url))
    /\ UNCHANGED <<arg, batchVars>>

CallFetchAgForYear ==
    /\ op = "idle"
    /\ op' = "ag"
    /\ ret' = Some(FetchAgCitation(arg.url, arg.resp))
    /\ UNCHANGED <<arg, batchVars>>

NextYear == CallExtractYear \/ CallFetchAgForYear

SpecYear == InitYear /\ [][NextYear]_vars

\* 'en', 'ar' or 'fr' followed by at least two digits stands at p
PrefixedYearAt(url, p) ==
    /\ p + 3 <= Len(url)
    /\ <<url[p], url[p + 1]>> \in YearPrefixes
    /\ IsDigit(url[p + 2])
    /\ IsDigit(url[p + 3])

\* a four-digit year 1900..2099 stands at p
BareYearAt(url, p) ==
    /\ p + 3 <= Len(url)
    /\ \/ url[p] = "1" /\ url[p + 1] = "9"
       \/ url[p] = "2" /\ url[p + 1] = "0"
    /\ IsDigit(url[p + 2])
    /\ IsDigit(url[p + 3])

\* the digits (2 to 4 of them) that follow the prefix at p
YearDigitsAt(url, p) ==
    LET n == CHOOSE n \in 2..4 :
                 /\ p + 1 + n <= Len(url)
                 /\ \A k \in 2..(n + 1) : IsDigit(url[p + k])
                 /\ \/ n = 4
                    \/ p + 2 + n > Len(url)
                    \/ ~IsDigit(url[p + 2 + n])
    IN  [k \in 1..n |-> url[p + 1 + k]]

\* C7: extract_year_from_url returns the digits of the first 'en', 'ar' or
\* 'fr' token with 2 to 4 digits, a 2-digit run NN expanded to 19NN when
\* NN >= 50 and to 20NN otherwise; without such a token the first 4-digit
\* year 1900..2099 of the URL; without either nothing, and then
\* fetch_ag_citation returns an error and no citation.
YearExtraction ==
    LET url == arg.url
        P == {p \in 1..Len(url) : PrefixedYearAt(url, p)}
        B == {p \in 1..Len(url) : BareYearAt(url, p)}
    IN  /\ (op = "year" /\ P # {}) =>
              LET p == CHOOSE p \in P : \A q \in P : p <= q
                  run == YearDigitsAt(url, p)
              IN  /\ Len(run) = 2 /\ run[1] \in {"5", "6", "7", "8", "9"}
                        => ret = Some(Some(<<"1", "9">> \o run))
                  /\ Len(run) = 2 /\ run[1] \in {"0", "1", "2", "3", "4"}
                        => ret = Some(Some(<<"2", "0">> \o run))
                  /\ Len(run) > 2 => ret = Some(Some(run))
        /\ (op = "year" /\ P = {} /\ B # {}) =>
              LET p == CHOOSE p \in B : \A q \in B : p <= q
              IN  ret = Some(Some(SubSeq(url, p, p + 3)))
        /\ (op = "year" /\ P = {} /\ B = {}) => ret = Some(None)
        /\ (op = "ag" /\ P = {} /\ B = {}) =>
              /\ ~ret[1].raised
              /\ ret[1].citation = None
              /\ Truthy(ret[1].error)

\* a two-digit year of 50 or more was expanded with 19
YearExpandedReached ==
    /\ op = "year"
    /\ Contains(arg.url, <<"f","r","5","0">>)
    /\ ~Contains(arg.url, <<"e","n">>)
    /\ ~Contains(arg.url, <<"a","r">>)
    /\ ret = Some(Some(<<"1","9","5","0">>))

---------------------------------------------------------------------------
(* SpecChapter: extract_chapter_section_from_filename applied to file      *)
(* names assembled from volume prefixes and digit groups                   *)

NameFrags ==
    { <<"v","1","_">>, <<"v">>, <<"1","2","_">>, <<"3","0","6">>, <<"3","0","0">>, <<"4">>, <<"e","n","1","8">>, <<"e","n">>, <<".","p","d","f">> }

FileNames == {Concat(q) : q \in SeqsUpTo(NameFrags, MaxNameParts)}

InitChapter ==
    /\ op = "idle"
    /\ arg \in FileNames
    /\ ret = None
    /\ BatchOff

CallExtractChapterSection ==
    /\ op = "idle"
    /\ op' = "chapter"
    /\ ret' = Some(ExtractChapterSectionFromFilename(arg))
    /\ UNCHANGED <<arg, batchVars>>

NextChapter == CallExtractChapterSection

SpecChapter == InitChapter /\ [][NextChapter]_vars

\* 'v', one or more digits, '_' and three digits stand at p..q+3
VolumeTokenAt(s, p, q) ==
    /\ s[p] = "v"
    /\ p + 1 < q
    /\ q + 3 <= Len(s)
    /\ \A k \in (p + 1)..(q - 1) : IsDigit(s[k])
    /\ s[q] = "_"
    /\ \A k \in 1..3 : IsDigit(s[q + k])

\* the name begins with three digits, 'en' and two digits
LeadingToken(s) ==
    /\ Len(s) >= 7
    /\ IsDigit(s[1]) /\ IsDigit(s[2]) /\ IsDigit(s[3])
    /\ s[4] = "e" /\ s[5] = "n"
    /\ IsDigit(s[6]) /\ IsDigit(s[7])

\* chapter C with section C.SS, or chapter C alone when SS is 00
ChapterSectionIs(r, c, ss) ==
    /\ r.chapter = Some(<<c>>)
    /\ ss # <<"0", "0">> => r.section = Some(<<c, ".">> \o ss)
    /\ ss = <<"0", "0">> => r.section = None

\* C8: for a file name matching v<digits>_CSS or beginning with CSSen<2
\* digits> the result is chapter C and section C.SS, the section absent
\* when SS is 00; for any other name both are absent; so a section never
\* comes without its chapter and always starts with the chapter and '.'.
ChapterSectionParsing ==
    op = "chapter" =>
        LET s == arg
            r == ret[1]
            V == {pq \in (1..Len(s)) \X (1..Len(s)) :
                     VolumeTokenAt(s, pq[1], pq[2])}
        IN  /\ V # {} =>
                  LET pq == CHOOSE pq \in V : \A o \in V : pq[1] <= o[1]
                  IN  ChapterSectionIs(r, s[pq[2] + 1],
                                       <<s[pq[2] + 2], s[pq[2] + 3]>>)
            /\ (V = {} /\ LeadingToken(s)) =>
                  ChapterSectionIs(r, s[1], <<s[2], s[3]>>)
            /\ (V = {} /\ ~LeadingToken(s)) =>
                  r.chapter = None /\ r.section = None
            /\ r.section # None =>
                  /\ r.chapter # None
                  /\ StartsWith(r.section[1], r.chapter[1] \o <<".">>)

\* a name without the volume prefix gave chapter 3 and section 3.06
ChapterSecondPatternReached ==
    /\ op = "chapter"
    /\ arg = <<"3","0","6","e","n","1","8",".","p","d","f">>
    /\ ret = Some([chapter |-> Some(<<"3">>), section |-> Some(<<"3",".","0","6">>)])

---------------------------------------------------------------------------
(* SpecMinistries: format_ministries applied to a main ministry and up to  *)
(* MaxPartners partner entries                                             *)

MinistryNames == { <<"H","e","a","l","t","h">>, <<"L","a","b","o","u","r">>, <<"F","i","n","a","n","c","e">> }

\* a partner entry: a dict with a 'name', or one without
PartnerEntries ==
    {[name |-> Some(n)] : n \in MinistryNames} \cup {[name |-> None]}

InitMinistries ==
    /\ op = "idle"
    /\ arg \in [main : MinistryNames,
                partners : {<<>>} \cup SeqsUpTo(PartnerEntries, MaxPartners)]
    /\ ret = None
    /\ BatchOff

CallFormatMinistries ==
    /\ op = "idle"
    /\ op' = "ministries"
    /\ ret' = Some(FormatMinistries(arg.main, arg.partners))
    /\ UNCHANGED <<arg, batchVars>>

NextMinistries == CallFormatMinistries

SpecMinistries == InitMinistries /\ [][NextMinistries]_vars

\* L lists, without repetition, the main ministry and then the names of the
\* partners in the order of their first appearance
IsMinistryList(L, main, partners) ==
    LET named == {k \in 1..Len(partners) : partners[k].name # None}
        FirstAt(n) == CHOOSE k \in named :
                        /\ partners[k].name = Some(n)
                        /\ \A j \in named : partners[j].name = Some(n) => k <= j
    IN  /\ L[1] = main
        /\ \A a, b \in 1..Len(L) : L[a] = L[b] => a = b
        /\ {L[k] : k \in 1..Len(L)}
             = {main} \cup {partners[k].name[1] : k \in named}
        /\ \A a, b \in 2..Len(L) : a < b => FirstAt(L[a]) < FirstAt(L[b])

\* 'A', 'A and B' or 'A, B, ..., and Z'
RECURSIVE CommaList(_)
CommaList(L) ==
    IF Len(L) = 1 THEN <<",", " ", "a", "n", "d", " ">> \o L[1]
    ELSE <<",", " ">> \o Head(L) \o CommaList(Tail(L))

JoinedMinistries(L) ==
    CASE Len(L) = 1 -> L[1]
      [] Len(L) = 2 -> L[1] \o <<" ", "a", "n", "d", " ">> \o L[2]
      [] OTHER -> L[1] \o CommaList(Tail(L))

\* C9: format_ministries lists the main ministry and then each partner
\* name that differs from it and has not appeared yet, and joins the list
\* as 'A', 'A and B' or 'A, B, ..., and Z'.
MinistriesFormatted ==
    op = "ministries" =>
        \E L \in SeqsUpTo(MinistryNames, Cardinality(MinistryNames)) :
            /\ IsMinistryList(L, arg.main, arg.partners)
            /\ ret = Some(JoinedMinistries(L))

\* a repeated partner and a partner equal to the main ministry are dropped
MinistriesDedupReached ==
    /\ op = "ministries"
    /\ arg.main = <<"H","e","a","l","t","h">>
    /\ arg.partners = <<[name |-> Some(<<"L","a","b","o","u","r">>)], [name |-> Some(<<"H","e","a","l","t","h">>)],
                        [name |-> Some(<<"L","a","b","o","u","r">>)]>>
    /\ ret = Some(<<"H","e","a","l","t","h"," ","a","n","d"," ","L","a","b","o","u","r">>)

---------------------------------------------------------------------------
(* SpecDocx: generate_docx applied to one citation assembled from markup   *)
(* characters and tokens, and to short lists of citations                  *)

MarkupFrags ==
    { <<"[">>, <<"]">>, <<"(">>, <<")">>, <<"*">>, <<"_">>, <<"x">>, <<" ","a","n","d"," ">>, <<"\n">>,
      <<"[","a","]","(","u",")">>, <<"*","b","*">>, <<"_","c","_">>, <<"(","d",")">>, <<"]","(","u",")">>, <<"[","a","]">> }

Markups == {Concat(q) : q \in SeqsUpTo(MarkupFrags, MaxMarkupParts)}

ListedCitations == { <<"[","a","]","(","u",")">>, <<"x"," ","*","b","*",".">>, <<"*">> }

CitationLists ==
    {<<c>> : c \in Markups} \cup SeqsUpTo(ListedCitations, MaxCitations)

InitDocx ==
    /\ op = "idle"
    /\ arg \in CitationLists
    /\ ret = None
    /\ BatchOff

CallGenerateDocx ==
    /\ op = "idle"
    /\ op' = "docx"
    /\ ret' = Some(GenerateDocx(arg))
    /\ UNCHANGED <<arg, batchVars>>

NextDocx == CallGenerateDocx

SpecDocx == InitDocx /\ [][NextDocx]_vars

\* the parts of a citation that are not empty, each with whether the
\* pattern matched it (a token) or it is the text between two matches
TaggedParts(citation_md) ==
    LET parts == SplitParts(citation_md, 1, 1)
        tagged == [k \in 1..Len(parts) |->
                      [text |-> parts[k], token |-> k % 2 = 0]]
    IN  SelectSeq(tagged, LAMBDA t : t.text # <<>>)

\* C4: generate_docx never fails, appends one paragraph per citation in
\* input order, and emits every piece of text that is no complete
\* hyperlink or italic token unchanged, as plain text.
RendersMalformedAsPlain ==
    op = "docx" =>
        /\ ~ret[1].raised
        /\ Len(ret[1].paragraphs) = Len(arg)
        /\ \A k \in 1..Len(arg) :
              LET parts == TaggedParts(arg[k])
                  runs == ret[1].paragraphs[k]
              IN  /\ Len(runs) = Len(parts) + 1
                  /\ \A j \in 1..Len(parts) :
                        IF parts[j].token
                        THEN runs[j].kind \in {"hyperlink", "italic"}
                        ELSE runs[j] = PlainRun(parts[j].text)

\* C5: the run of every hyperlink token [display](url) shows the token's
\* display text and targets the token's url.
HyperlinkRunMatchesToken ==
    (op = "docx" /\ ~ret[1].raised) =>
        \A k \in 1..Len(arg) :
            LET parts == TaggedParts(arg[k])
                runs == ret[1].paragraphs[k]
            IN  \A j \in 1..Len(parts) :
                    (parts[j].token /\ parts[j].text[1] = "[") =>
                        LET t == parts[j].text
                            b == CHOOSE b \in 2..Len(t) :
                                     /\ t[b] = "]"
                                     /\ t[b + 1] = "("
                                     /\ \A c \in 2..(b - 1) :
                                           ~(t[c] = "]" /\ t[c + 1] = "(")
                        IN  /\ runs[j].kind = "hyperlink"
                            /\ runs[j].text = Slice(t, 2, b - 1)
                            /\ runs[j].url = Slice(t, b + 2, Len(t) - 1)

\* a hyperlink '[display](url)' stands at a..c of s with its '](' at b: the
\* display text holds no line break and no '](', the url no line break and
\* no ')'
LinkAt(s, a, b, c) ==
    /\ a < b /\ b + 1 < c /\ c <= Len(s)
    /\ s[a] = "[" /\ s[b] = "]" /\ s[b + 1] = "(" /\ s[c] = ")"
    /\ \A k \in (a + 1)..(b - 1) :
          s[k] # "\n" /\ ~(s[k] = "]" /\ s[k + 1] = "(")
    /\ \A k \in (b + 2)..(c - 1) : s[k] \notin {"\n", ")"}

\* an italic span '*text*' or '_text_' stands at e..f of s: the text holds
\* no line break and not the delimiter
ItalicAt(s, e, f) ==
    /\ e < f /\ f <= Len(s)
    /\ s[e] \in {"*", "_"} /\ s[f] = s[e]
    /\ \A k \in (e + 1)..(f - 1) : s[k] \notin {"\n", s[e]}

\* text that opens no token
IsPlainText(t) == \A k \in 1..Len(t) : t[k] \notin {"[", "*", "_"}

\* the kinds and texts of runs, in order, runs of empty plain text left out
KindsAndTexts(runs) ==
    SelectSeq([k \in 1..Len(runs) |->
                  [kind |-> runs[k].kind, text |-> runs[k].text]],
              LAMBDA r : ~(r.kind = "plain" /\ r.text = <<>>))

\* the runs the string s must give when it is plain text, the hyperlink at
\* a..c, plain text, the italic span at e..f and plain text
LinkThenItalic(s, a, b, c, e, f) ==
    KindsAndTexts(<< [kind |-> "plain", text |-> Slice(s, 1, a - 1)],
                     [kind |-> "hyperlink", text |-> Slice(s, a + 1, b - 1)],
                     [kind |-> "plain", text |-> Slice(s, c + 1, e - 1)],
                     [kind |-> "italic", text |-> Slice(s, e + 1, f - 1)],
                     [kind |-> "plain", text |-> Slice(s, f + 1, Len(s))] >>)

\* the same with the italic span at e..f before the hyperlink at a..c
ItalicThenLink(s, a, b, c, e, f) ==
    KindsAndTexts(<< [kind |-> "plain", text |-> Slice(s, 1, e - 1)],
                     [kind |-> "italic", text |-> Slice(s, e + 1, f - 1)],
                     [kind |-> "plain", text |-> Slice(s, f + 1, a - 1)],
                     [kind |-> "hyperlink", text |-> Slice(s, a + 1, b - 1)],
                     [kind |-> "plain", text |-> Slice(s, c + 1, Len(s))] >>)

\* the runs of a paragraph without its closing line break
RunsBeforeBreak(paragraph) == SubSeq(paragraph, 1, Len(paragraph) - 1)

\* the hyperlinks and the italic spans that stand in s
LinksIn(s) ==
    { q \in {k \in 1..Len(s) : s[k] = "["} \X {k \in 1..Len(s) : s[k] = "]"}
              \X {k \in 1..Len(s) : s[k] = ")"} :
        LinkAt(s, q[1], q[2], q[3]) }

ItalicsIn(s) ==
    { q \in {k \in 1..Len(s) : s[k] \in {"*", "_"}}
              \X {k \in 1..Len(s) : s[k] \in {"*", "_"}} :
        ItalicAt(s, q[1], q[2]) }

\* the ways to read s as plain text with one hyperlink and one italic
\* span: the runs each reading must give
MarkedReadings(s) ==
    { LinkThenItalic(s, q[1][1], q[1][2], q[1][3], q[2][1], q[2][2]) :
        q \in { q \in LinksIn(s) \X ItalicsIn(s) :
                  /\ q[1][3] < q[2][1]
                  /\ IsPlainText(Slice(s, 1, q[1][1] - 1))
                  /\ IsPlainText(Slice(s, q[1][3] + 1, q[2][1] - 1))
                  /\ IsPlainText(Slice(s, q[2][2] + 1, Len(s))) } }
    \cup
    { ItalicThenLink(s, q[1][1], q[1][2], q[1][3], q[2][1], q[2][2]) :
        q \in { q \in LinksIn(s) \X ItalicsIn(s) :
                  /\ q[2][2] < q[1][1]
                  /\ IsPlainText(Slice(s, 1, q[2][1] - 1))
                  /\ IsPlainText(Slice(s, q[2][2] + 1, q[1][1] - 1))
                  /\ IsPlainText(Slice(s, q[1][3] + 1, Len(s))) } }

\* C11: a citation made of plain text, one hyperlink [display](url) and one
\* italic span is rendered, left to right, as its plain text unchanged, a
\* hyperlink run showing the display text and an italic run showing the
\* inner text: the run texts joined in order are the citation without its
\* delimiters and its url.
TokenizeRoundTrip ==
    op = "docx" =>
        \A k \in 1..Len(arg) :
            \A reading \in MarkedReadings(arg[k]) :
                /\ ~ret[1].raised
                /\ KindsAndTexts(RunsBeforeBreak(ret[1].paragraphs[k]))
                     = reading

---------------------------------------------------------------------------
(* URLs and the answers of the network *)

\* the URLs the extractors and the batch are run on: audit reports (PDF and
\* HTML, one without a year), news releases (one without a release id),
\* statutes and regulations (with anchors and a query) and a foreign page
Urls ==
    [PdfReport |-> <<"h","t","t","p","s",":","/","/","w","w","w",".","a","u","d","i","t","o","r",".","o","n",".","c","a","/","e","n","1","8","/","v","1","_","3","0","6","e","n","1","8",".","p","d","f">>,
     PdfChapter |-> <<"h","t","t","p","s",":","/","/","w","w","w",".","a","u","d","i","t","o","r",".","o","n",".","c","a","/","e","n","1","8","/","v","1","_","3","0","0","e","n","1","8",".","P","D","F">>,
     PdfSummary |-> <<"h","t","t","p","s",":","/","/","w","w","w",".","a","u","d","i","t","o","r",".","o","n",".","c","a","/","a","r","2","0","1","9","/","s","u","m","m","a","r","y",".","p","d","f">>,
     HtmlReport |-> <<"h","t","t","p","s",":","/","/","w","w","w",".","a","u","d","i","t","o","r",".","o","n",".","c","a","/","e","n","2","0","2","4","/","A","R","_","e","n","2","4",".","h","t","m","l">>,
     NoYear |-> <<"h","t","t","p","s",":","/","/","w","w","w",".","a","u","d","i","t","o","r",".","o","n",".","c","a","/","r","e","p","o","r","t","s",".","h","t","m","l">>,
     News |-> <<"h","t","t","p","s",":","/","/","n","e","w","s",".","o","n","t","a","r","i","o",".","c","a","/","e","n","/","r","e","l","e","a","s","e","/","1","0","0","6","4","8","8","/","o","n","t","a","r","i","o","-","w","e","l","c","o","m","e","s">>,
     NoId |-> <<"h","t","t","p","s",":","/","/","n","e","w","s",".","o","n","t","a","r","i","o",".","c","a","/","e","n","/","r","e","l","e","a","s","e","/","l","a","t","e","s","t">>,
     Statute |-> <<"h","t","t","p","s",":","/","/","w","w","w",".","o","n","t","a","r","i","o",".","c","a","/","l","a","w","s","/","s","t","a","t","u","t","e","/","0","7","e","0","7">>,
     StatuteSection |-> <<"h","t","t","p","s",":","/","/","w","w","w",".","o","n","t","a","r","i","o",".","c","a","/","l","a","w","s","/","s","t","a","t","u","t","e","/","0","7","e","0","7","#","B","K","3">>,
     Regulation |-> <<"h","t","t","p","s",":","/","/","w","w","w",".","o","n","t","a","r","i","o",".","c","a","/","l","a","w","s","/","r","e","g","u","l","a","t","i","o","n","/","0","8","0","2","2","1">>,
     RegulationSection |-> <<"h","t","t","p","s",":","/","/","w","w","w",".","o","n","t","a","r","i","o",".","c","a","/","l","a","w","s","/","r","e","g","u","l","a","t","i","o","n","/","0","8","0","2","2","1","?","s","e","a","r","c","h","=","f","e","e","#","B","K","3","?","x">>,
     Other |-> <<"h","t","t","p","s",":","/","/","w","w","w",".","e","x","a","m","p","l","e",".","o","r","g","/","p","a","g","e">>]

\* an answer to the one request of an audit-report call
AgResponse(fetch, pdf, title, headings, content) ==
    [fetch |-> fetch, pdf |-> pdf, title |-> title, headings |-> headings,
     content |-> content]

AgFailures ==
    { AgResponse(f, FALSE, None, <<None, None, None>>, None) :
          f \in {"neterr", "badstatus"} }

\* PDF bodies: whether pdfplumber opens them, and their metadata Title
AgPdfBodies ==
    { AgResponse("ok", b[1], b[2], <<None, None, None>>, None) :
          b \in { <<FALSE, None>>,
                  <<TRUE, None>>,
                  <<TRUE, Some(<<>>)>>,
                  <<TRUE, Some(<<" ","3",".","0","6"," "," ","L","a","n","d"," "," "," ","T","r","i","b","u","n","a","l"," ">>)>>,
                  <<TRUE, Some(<<"2","0","1","8"," ","A","u","d","i","t","o","r","'","s"," ","R","e","p","o","r","t",":"," ","V","F","M"," ","3",".","0","6",":"," ","O","n","t","a","r","i","o">>)>>,
                  <<TRUE, Some(<<"2","0","1","8"," ","P","r","o","v","i","n","c","i","a","l"," ","A","u","d","i","t","o","r"," ","R","e","p","o","r","t",":">>)>> } }

\* HTML pages: their first h1, h2 and h3 and the heading of a content area
AgHtmlBodies ==
    { AgResponse("ok", FALSE, None, b[1], b[2]) :
          b \in { <<<<Some(<<" ","L","a","n","d"," "," ","T","r","i","b","u","n","a","l"," ">>), None, None>>, None>>,
                  <<<<Some(<<"O","f","f","i","c","e"," ","o","f"," ","t","h","e"," ","A","u","d","i","t","o","r"," ","G","e","n","e","r","a","l"," ","o","f"," ","O","n","t","a","r","i","o">>),
                      Some(<<"L","a","n","d"," ","T","r","i","b","u","n","a","l">>), None>>, None>>,
                  <<<<Some(<<" ">>), None, Some(<<"A","u","d","i","t","o","r"," ","G","e","n","e","r","a","l">>)>>,
                    Some(<<"M","e","s","s","a","g","e"," ","f","r","o","m"," ","t","h","e"," ","A","u","d","i","t","o","r"," ","G","e","n","e","r","a","l">>)>>,
                  <<<<None, None, None>>,
                    Some(<<"O","f","f","i","c","e"," ","o","f"," ","t","h","e"," ","A","u","d","i","t","o","r"," ","G","e","n","e","r","a","l">>)>>,
                  <<<<None, None, None>>, None>> } }

AgUrls ==
    {Urls.PdfReport, Urls.PdfChapter, Urls.PdfSummary, Urls.HtmlReport,
     Urls.NoYear}

AgResponses == AgFailures \cup AgPdfBodies \cup AgHtmlBodies

\* the 'data' object of a news release
NewsData(ministry, partners, title, type, date) ==
    [ministry_name |-> ministry, partner_ministries |-> partners,
     content_title |-> title, release_type_name |-> type,
     release_date_time_formatted |-> date]

NewsBody(json, data, partners_null, release_type_null) ==
    [json |-> json, data |-> data, partners_null |-> partners_null,
     release_type_null |-> release_type_null]

EmptyData == NewsData(None, None, None, None, None)

FullData ==
    NewsData(Some(<<"E","c","o","n","o","m","i","c"," ","D","e","v","e","l","o","p","m","e","n","t">>),
             Some(<<[name |-> Some(<<"F","i","n","a","n","c","e">>)], [name |-> None],
                    [name |-> Some(<<"E","c","o","n","o","m","i","c"," ","D","e","v","e","l","o","p","m","e","n","t">>)],
                    [name |-> Some(<<"L","a","b","o","u","r">>)]>>),
             Some(<<"O","n","t","a","r","i","o"," ","W","e","l","c","o","m","e","s"," ","I","n","v","e","s","t","m","e","n","t">>), Some(<<"N","e","w","s"," ","R","e","l","e","a","s","e">>),
             Some(<<"M","a","r","c","h"," ","4",","," ","2","0","2","5">>))

NewsBodies ==
    { NewsBody("invalid", EmptyData, FALSE, FALSE),
      NewsBody("nodata", EmptyData, FALSE, FALSE),
      NewsBody("notobject", EmptyData, FALSE, FALSE),
      NewsBody("object", EmptyData, FALSE, FALSE),
      NewsBody("object", FullData, FALSE, FALSE),
      NewsBody("object", FullData, TRUE, FALSE),
      NewsBody("object", FullData, FALSE, TRUE),
      NewsBody("object",
               NewsData(Some(<<"H","e","a","l","t","h">>), Some(<<[name |-> Some(<<"L","a","b","o","u","r">>)]>>),
                        None, Some(<<"S","t","a","t","e","m","e","n","t">>), None),
               FALSE, FALSE) }

NewsUrls == {Urls.News, Urls.NoId}

NewsResponses ==
    { [fetch |-> f, body |-> NewsBody("invalid", EmptyData, FALSE, FALSE)] :
          f \in {"neterr", "badstatus"} }
      \cup { [fetch |-> "ok", body |-> b] : b \in NewsBodies }

\* a legislation page: the text of its title element, the id of its
\* anchored element and the headings of that element's ancestors
ElawsPage(title, anchor_id, parents) ==
    [title |-> title, anchor_id |-> anchor_id, parents |-> parents]

ElawsTitles ==
    { None,
      Some(<<"E","a","r","l","y"," ","C","h","i","l","d","h","o","o","d"," ","E","d","u","c","a","t","o","r","s"," ","A","c","t",","," ","2","0","0","7"," ","-"," ","O","n","t","a","r","i","o",".","c","a">>),
      Some(<<"O","."," ","R","e","g","."," ","2","2","1","/","0","8"," ","-"," ","G","e","n","e","r","a","l">>),
      Some(<<"H","i","g","h","w","a","y"," ","T","r","a","f","f","i","c"," ","A","c","t">>),
      Some(<<" ","-"," ","O","n","t","a","r","i","o",".","c","a">>) }

ElawsAnchors ==
    { <<None, <<>>>>,
      <<Some(<<"B","K","3">>), <<None, Some(<<"D","e","f","i","n","i","t","i","o","n","s">>), Some(<<" ","1","2"," ","F","e","e","s">>)>>>>,
      <<Some(<<"B","K","3">>), <<Some(<<"P","a","r","t"," ","I","I">>)>>>>,
      <<Some(<<"B","K","7">>), <<Some(<<"7"," ","O","f","f","e","n","c","e">>)>>>> }

ElawsUrls ==
    {Urls.Statute, Urls.StatuteSection, Urls.Regulation,
     Urls.RegulationSection}

ElawsResponses ==
    { [fetch |-> f, page |-> ElawsPage(None, None, <<>>)] :
          f \in {"neterr", "badstatus"} }
      \cup { [fetch |-> "ok", page |-> ElawsPage(t, a[1], a[2])] :
                t \in ElawsTitles, a \in ElawsAnchors }

---------------------------------------------------------------------------
(* SpecExtract: each extractor applied to one URL of its kind and one      *)
(* answer of the network                                                   *)

InitExtract ==
    /\ op = "idle"
    /\ arg \in [fn : {"ag"}, url : AgUrls, resp : AgResponses]
         \cup [fn : {"news"}, url : NewsUrls, resp : NewsResponses]
         \cup [fn : {"elaws"}, url : ElawsUrls, resp : ElawsResponses]
    /\ ret = None
    /\ BatchOff

CallFetchAg ==
    /\ op = "idle"
    /\ arg.fn = "ag"
    /\ op' = "ag"
    /\ ret' = Some(FetchAgCitation(arg.url, arg.resp))
    /\ UNCHANGED <<arg, batchVars>>

CallFetchNews ==
    /\ op = "idle"
    /\ arg.fn = "news"
    /\ op' = "news"
    /\ ret' = Some(FetchNewsReleaseCitation(arg.url, arg.resp))
    /\ UNCHANGED <<arg, batchVars>>

CallFetchElaws ==
    /\ op = "idle"
    /\ arg.fn = "elaws"
    /\ op' = "elaws"
    /\ ret' = Some(FetchElawsCitation(arg.url, arg.resp))
    /\ UNCHANGED <<arg, batchVars>>

NextExtract == CallFetchAg \/ CallFetchNews \/ CallFetchElaws

SpecExtract == InitExtract /\ [][NextExtract]_vars

\* C3: no extractor lets a failure escape: fetch_ag_citation and
\* fetch_news_release_citation return either a citation and no error or no
\* citation and an error message that is not empty; fetch_elaws_citation
\* returns either a record with an 'error' and no titles or section, or a
\* record without 'error' that has a short citation.
ExtractorsContainFailures ==
    /\ op \in {"ag", "news"} =>
          /\ ~ret[1].raised
          /\ \/ ret[1].citation # None /\ ret[1].error = None
             \/ ret[1].citation = None /\ Truthy(ret[1].error)
    /\ op = "elaws" =>
          /\ ~ret[1].raised
          /\ LET r == ret[1].value
             IN  \/ /\ "error" \in DOMAIN r
                    /\ "short_citation" \notin DOMAIN r
                    /\ r.full_title = None
                    /\ r.short_title = None
                    /\ r.section = None
                 \/ /\ "error" \notin DOMAIN r
                    /\ "short_citation" \in DOMAIN r
                    /\ r.short_citation # None

\* a news answer whose JSON cannot be parsed came back as an error message
ParseFailureReached ==
    /\ op = "news"
    /\ arg.resp.fetch = "ok"
    /\ arg.resp.body.json = "invalid"
    /\ Truthy(ExtractReleaseId(arg.url))
    /\ ret[1].citation = None
    /\ Truthy(ret[1].error)

\* C10: for a URL containing 'regulation' whose page was fetched, the
\* record has neither a full title nor a full citation, and its short
\* citation is [short title](clean url) followed by ', s. N.' when a
\* section N was found and by '.' otherwise.
RegulationShortOnly ==
    (op = "elaws" /\ Contains(arg.url, <<"r","e","g","u","l","a","t","i","o","n">>) /\ arg.resp.fetch = "ok")
        => LET r == ret[1].value
           IN  /\ "error" \notin DOMAIN r
               /\ r.full_title = None
               /\ r.full_citation = None
               /\ r.short_citation =
                     Some(<<"[">> \o r.short_title[1] \o <<"]", "(">>
                            \o r.clean_url \o <<")">>
                            \o IF r.section = None THEN <<".">>
                               ELSE <<",", " ", "s", ".", " ">>
                                      \o r.section[1] \o <<".">>)

---------------------------------------------------------------------------
(* Spec: the batch started by the Generate button.  The URLs are those of  *)
(* the text area (an empty text area only shows a warning); one step of    *)
(* the loop handles one URL and waits for the answer to its request.       *)

BatchUrls ==
    {Urls.PdfReport, Urls.NoYear, Urls.News, Urls.NoId, Urls.Regulation,
     Urls.Other}

BatchAgResponses ==
    { AgResponse("neterr", FALSE, None, <<None, None, None>>, None),
      AgResponse("ok", TRUE, Some(<<"3",".","0","6"," ","L","a","n","d"," ","T","r","i","b","u","n","a","l">>),
                 <<None, None, None>>, None) }

BatchNewsResponses ==
    { [fetch |-> "badstatus",
       body |-> NewsBody("invalid", EmptyData, FALSE, FALSE)],
      [fetch |-> "ok", body |-> NewsBody("object", FullData, FALSE, FALSE)] }

BatchElawsResponses ==
    { [fetch |-> "neterr", page |-> ElawsPage(None, None, <<>>)],
      [fetch |-> "ok",
       page |-> ElawsPage(Some(<<"O","."," ","R","e","g","."," ","2","2","1","/","0","8"," ","-"," ","G","e","n","e","r","a","l">>), None, <<>>)],
      [fetch |-> "ok", page |-> ElawsPage(None, None, <<>>)] }

Init ==
    /\ op = "off"
    /\ arg = <<>>
    /\ ret = None
    /\ urls \in SeqsUpTo(BatchUrls, MaxUrls)
    /\ i = 0
    /\ citations = <<>>
    /\ results = <<>>
    /\ pc = "loop"
    /\ docx = None

\* the url the loop is at
url == urls[i + 1]

\* a loop body that collects the citation whatever the error says
CollectAlways(collected, u, out, type) ==
    Append(collected, <<u, GetOr(out.citation, <<>>), type>>)

\* the branch of the loop body after an audit-report or news call: the
\* citation is collected unless the call gave an error
Collect(collected, u, out, type) ==
    IF Truthy(out.error) THEN collected
    ELSE Append(collected, <<u, out.citation[1], type>>)

\* the branch of the loop body after a legislation call
CollectElaws(collected, u, citation_data) ==
    IF "error" \in DOMAIN citation_data THEN collected
    ELSE IF Truthy(citation_data.full_title)
    THEN Append(collected, <<u, citation_data.full_citation[1], "elaws">>)
    ELSE Append(collected, <<u, citation_data.short_citation[1], "elaws">>)

\* one pass of the loop is over: out is what the extractor call gave
\* (an exception that left the call ends the script)
Advance(type, out) ==
    /\ i' = i + 1
    /\ results' = Append(results, [url |-> url, type |-> type, out |-> out])
    /\ pc' = IF out.raised THEN "crashed"
             ELSE IF i + 1 = Len(urls) THEN "render"
             ELSE "loop"
    /\ UNCHANGED <<op, arg, ret, urls, docx>>

ProcessAg ==
    /\ pc = "loop"
    /\ DetectCitationType(url) = "ag"
    /\ \E out \in {FetchAgCitation(url, resp) : resp \in BatchAgResponses} :
          /\ citations' = IF out.raised THEN citations
                          ELSE Collect(citations, url, out, "ag")
          /\ Advance("ag", out)

ProcessNews ==
    /\ pc = "loop"
    /\ DetectCitationType(url) = "news"
    /\ \E out \in {FetchNewsReleaseCitation(url, resp) : resp \in BatchNewsResponses} :
          /\ citations' = IF out.raised THEN citations
                          ELSE Collect(citations, url, out, "news")
          /\ Advance("news", out)

ProcessElaws ==
    /\ pc = "loop"
    /\ DetectCitationType(url) = "elaws"
    /\ \E out \in {FetchElawsCitation(url, resp) : resp \in BatchElawsResponses} :
          /\ citations' = IF out.raised THEN citations
                          ELSE CollectElaws(citations, url, out.value)
          /\ Advance("elaws", out)

\* no request is made: the URL is reported as not recognized
ProcessUnrecognized ==
    /\ pc = "loop"
    /\ DetectCitationType(url) = "none"
    /\ citations' = citations
    /\ Advance("none", [raised |-> FALSE, requests |-> 0])

\* [c[1] for c in citations]
CitationTexts(collected) == [k \in 1..Len(collected) |-> collected[k][2]]

\* after the loop: the document of the collected citations
Render ==
    /\ pc = "render"
    /\ citations # <<>>
    /\ \E doc \in {GenerateDocx(CitationTexts(citations))} :
          /\ docx' = Some([arg |-> CitationTexts(citations), doc |-> doc])
          /\ pc' = IF doc.raised THEN "crashed" ELSE "done"
    /\ UNCHANGED <<op, arg, ret, urls, i, citations, results>>

\* after the loop: nothing was collected, no document is made
NothingToRender ==
    /\ pc = "render"
    /\ citations = <<>>
    /\ pc' = "done"
    /\ UNCHANGED <<op, arg, ret, urls, i, citations, results, docx>>

Next ==
    \/ ProcessAg
    \/ ProcessNews
    \/ ProcessElaws
    \/ ProcessUnrecognized
    \/ Render
    \/ NothingToRender

Spec == Init /\ [][Next]_vars

\* the extractor call of the k-th URL gave a citation
Succeeded(k) ==
    /\ results[k].type # "none"
    /\ ~results[k].out.raised
    /\ IF results[k].type = "elaws"
       THEN "error" \notin DOMAIN results[k].out.value
       ELSE results[k].out.error = None

\* the citations the extractor call of the k-th URL gave
CitationsOf(k) ==
    IF results[k].type = "elaws"
    THEN {c[1] : c \in {results[k].out.value.full_citation,
                        results[k].out.value.short_citation} \ {None}}
    ELSE {results[k].out.citation[1]}

\* C1: a URL that fails or is not recognized never stops the batch, and
\* the citations given to generate_docx are those of the URLs that
\* succeeded, in input order, with no entry for any other URL.
BatchKeepsSuccessesInOrder ==
    LET ok == {k \in 1..i : Succeeded(k)}
        \* the position in the batch of the j-th URL that succeeded
        Pos(j) == CHOOSE k \in ok : Cardinality({m \in ok : m <= k}) = j
    IN  /\ pc \in {"loop", "render", "done"}
        /\ Len(results) = i
        /\ \A k \in 1..i : results[k].url = urls[k]
        /\ pc = "loop" => i < Len(urls)
        /\ pc \in {"render", "done"} => i = Len(urls)
        /\ Len(citations) = Cardinality(ok)
        /\ \A j \in 1..Len(citations) :
              /\ citations[j][1] = urls[Pos(j)]
              /\ citations[j][2] \in CitationsOf(Pos(j))
        /\ docx # None =>
              /\ pc = "done"
              /\ docx[1].arg = [j \in 1..Len(citations) |-> citations[j][2]]
              /\ Len(docx[1].doc.paragraphs) = Len(citations)
        /\ (pc = "done" /\ citations # <<>>) => docx # None

\* a batch of three URLs whose second failed was rendered from the
\* citations of the first and the third
BatchWithFailureReached ==
    /\ pc = "done"
    /\ Len(urls) = 3
    /\ Succeeded(1) /\ ~Succeeded(2) /\ Succeeded(3)
    /\ results[2].type # "none"
    /\ docx # None
    /\ Len(docx[1].arg) = 2

\* a segment of the URL between '/' made of digits only
HasDigitSegment(u) ==
    \E a \in 1..Len(u) :
        /\ a = 1 \/ u[a - 1] = "/"
        /\ IsDigit(u[a])
        /\ \E b \in a..Len(u) :
              /\ b = Len(u) \/ u[b + 1] = "/"
              /\ \A k \in a..b : IsDigit(u[k])

\* the URL is recognized and passes the checks made before any request
FetchDue(u) ==
    \/ /\ Contains(u, AuditorHost)
       /\ \E p \in 1..Len(u) : PrefixedYearAt(u, p) \/ BareYearAt(u, p)
    \/ /\ ~Contains(u, AuditorHost)
       /\ Contains(u, NewsHost)
       /\ HasDigitSegment(u)
    \/ /\ ~Contains(u, AuditorHost)
       /\ ~Contains(u, NewsHost)
       /\ Contains(u, StatutePath) \/ Contains(u, RegulationPath)

\* C6: each URL of a batch triggers at most one HTTP request and none is
\* retried: one request when the URL is recognized and passes its checks,
\* none for an unrecognized URL, an audit-report URL without a year or a
\* news URL without an all-digit segment.
OneRequestPerUrl ==
    /\ Len(results) <= Len(urls)
    /\ \A k \in 1..Len(results) :
          results[k].out.requests = IF FetchDue(urls[k]) THEN 1 ELSE 0

\* a request that failed left its URL with exactly one request
FailedRequestReached ==
    /\ Len(results) = 2
    /\ results[1].type = "news"
    /\ results[1].out.requests = 1
    /\ results[1].out.citation = None
    /\ results[2].type = "ag"
    /\ results[2].out.requests = 0

=============================================================================
